---------------------------- MODULE Spec2Model ----------------------------
(***************************************************************************)
(* The useAudioRecorder hook of RecMind (src/hooks/useAudioRecorder.ts).   *)
(*                                                                         *)
(* The hook's React state, its refs, and the platform objects it creates   *)
(* (AudioContext, MediaStream, MediaRecorder) are the variables.  Every    *)
(* startRecording invocation gets a call id; the objects an invocation     *)
(* creates are indexed by that id.  startRecording is an async function:   *)
(* each segment between two awaits is one action (StartBegin, MicResolve,  *)
(* SysResolve), and the segment that follows the last await runs to the    *)
(* end of the function inside the same action.  The hook has no guard on   *)
(* its callers, so every operation may be invoked in every state.          *)
(*                                                                         *)
(* React (19.2, src/unnamed/part_011 line 181) commits a state update and  *)
(* runs the effects that depend on it before the next event handler or     *)
(* animation frame; the effects of lines 55-57 and 61-81 are therefore     *)
(* part of the action that sets the state.                                 *)
(***************************************************************************)
EXTENDS Integers, Sequences, FiniteSets, TLC

\* ------------------------------------------------------------------ bounds
\* startRecording invocations in one behaviour
MaxCalls == 2
\* timeslice chunks one recorder delivers before it is stopped
MaxChunks == 1
\* steps the clock takes
MaxSteps == 3

\* ------------------------------------------------------- program constants
Idle == "IDLE"
Recording == "RECORDING"
Paused == "PAUSED"

\* Math.floor(elapsed / 1000), durationRef.current * 1000
MsPerSec == 1000
\* the clock's granularity in the model: half a second
StepMs == MsPerSec \div 2

preferredTypes == <<"audio/mp4", "audio/webm;codecs=opus", "audio/webm">>
FallbackMime == "audio/webm"

\* A platform: what MediaRecorder.isTypeSupported accepts, the container the
\* platform uses when none is requested, whether it substitutes its default for
\* the requested type, and whether the recorder reports a mimeType at all.
WebmPlatform ==
    [supported |-> {"audio/webm;codecs=opus", "audio/webm"},
     default |-> "audio/webm;codecs=opus", substitutes |-> FALSE, reports |-> TRUE]
Mp4Platform ==
    [supported |-> {"audio/mp4", "audio/webm;codecs=opus", "audio/webm"},
     default |-> "audio/mp4", substitutes |-> FALSE, reports |-> TRUE]
SubstitutingPlatform ==
    [supported |-> {"audio/webm"},
     default |-> "audio/ogg", substitutes |-> TRUE, reports |-> TRUE]
BarePlatform ==
    [supported |-> {},
     default |-> "audio/ogg", substitutes |-> FALSE, reports |-> TRUE]
SilentPlatform ==
    [supported |-> {"audio/webm"},
     default |-> "audio/webm", substitutes |-> FALSE, reports |-> FALSE]
Platforms == {WebmPlatform, Mp4Platform, SubstitutingPlatform, BarePlatform, SilentPlatform}

\* The types a platform may support, and a platform for every set of them
MimeTypes == {"audio/mp4", "audio/webm;codecs=opus", "audio/webm", "audio/ogg"}
EveryPlatform ==
    {[supported |-> S, default |-> "audio/ogg", substitutes |-> FALSE, reports |-> TRUE] :
        S \in SUBSET MimeTypes}

Calls == 1..MaxCalls
NoRef == 0
NoBlob == [chunks |-> <<>>, type |-> "null", by |-> 0]

VARIABLES
    \* useState
    recordingState, audioBlob, audioMimeType, duration, analyser,
    \* useRef
    mediaRecorderRef, audioContextRef, streamsRef, chunksRef,
    frameStartRef, timerRafRef, durationRef, mimeTypeRef,
    \* startRecording invocations: position, arguments, outcome
    callPc, callMic, callSys, callResult,
    \* platform objects, by the invocation that created them
    ctxState, micStream, sysStream, sysAudioTracks, sysOnended, connected, recorder,
    recMime,
    \* the environment: alert() calls, performance.now(), the platform
    alerts, now, platform,
    \* history: the non-empty chunks each recorder delivered, the time spent in
    \* Recording since the last reset of duration, and for each invocation the
    \* recorders whose stop event was queued when it began
    delivered, recordedMs, startedDuring

hookVars == <<recordingState, audioBlob, audioMimeType, duration, analyser>>
refVars == <<mediaRecorderRef, audioContextRef, streamsRef, chunksRef,
             frameStartRef, timerRafRef, durationRef, mimeTypeRef>>
callVars == <<callPc, callMic, callSys, callResult>>
objVars == <<ctxState, micStream, sysStream, sysAudioTracks, sysOnended, connected,
             recorder, recMime>>
envVars == <<alerts, now, platform>>
histVars == <<delivered, recordedMs, startedDuring>>
vars == <<hookVars, refVars, callVars, objVars, envVars, histVars>>

\* ---------------------------------------------------------------- helpers

\* MediaRecorder.state of a recorder in the given phase of its life
RecorderState(life) ==
    IF life \in {"recording", "paused"} THEN life ELSE "inactive"

\* mediaRecorderRef.current && mediaRecorderRef.current.state !== 'inactive'
RefActive == mediaRecorderRef # NoRef /\ RecorderState(recorder[mediaRecorderRef]) # "inactive"

\* The list searched from its end.
RECURSIVE LastSupported(_, _)
LastSupported(types, supported) ==
    IF types = <<>> THEN ""
    ELSE IF types[Len(types)] \in supported THEN types[Len(types)]
    ELSE LastSupported(SubSeq(types, 1, Len(types) - 1), supported)

\* for (const mimeType of preferredTypes) if (isTypeSupported(mimeType)) return
RECURSIVE FirstSupported(_, _)
FirstSupported(types, supported) ==
    IF types = <<>> THEN ""
    ELSE IF Head(types) \in supported THEN Head(types)
    ELSE FirstSupported(Tail(types), supported)

getBestAudioMimeType(supported) == FirstSupported(preferredTypes, supported)

\* recorder.mimeType after `new MediaRecorder(dest.stream, {mimeType})`
RealizedMime(p, requested) ==
    IF ~p.reports THEN ""
    ELSE IF requested = "" \/ p.substitutes THEN p.default
    ELSE requested

\* a || b || c on strings
OrElse(a, b, c) == IF a # "" THEN a ELSE IF b # "" THEN b ELSE c

\* A stream of streamsRef: the invocation that acquired it and its kind
MicOf(k) == <<k, "mic">>
SysOf(k) == <<k, "sys">>
InList(s, list) == \E i \in 1..Len(list) : list[i] = s

\* stream.getTracks().forEach(t => t.stop()) over a list of streams
StopAll(state, kind, list) ==
    [k \in Calls |->
        IF state[k] = "live" /\ InList(<<k, kind>>, list) THEN "stopped" ELSE state[k]]

\* Platform outcomes.  getUserMedia: a stream ("ok"), a rejection ("fail"), or a
\* stream that createMediaStreamSource then refuses ("wire").  getDisplayMedia:
\* a stream with an audio track, a stream without one, a rejection, or a stream
\* with an audio track that createMediaStreamSource refuses.  The recorder: the
\* MediaRecorder constructor may throw (the recorder of that invocation is then
\* "refused") or start() may throw (it stays "created").
MicOutcomes == {"ok", "fail", "wire"}
SysOutcomes == {"audio", "noAudio", "fail", "wire"}
RecorderThrows == {"none", "ctor", "start"}
ChunkSizes == {0, 1}

\* ------------------------------------------------------------------- Init
InitOn(platforms) ==
    /\ recordingState = Idle
    /\ audioBlob = NoBlob
    /\ audioMimeType = "null"
    /\ duration = 0
    /\ analyser = NoRef
    /\ mediaRecorderRef = NoRef
    /\ audioContextRef = NoRef
    /\ streamsRef = <<>>
    /\ chunksRef = <<>>
    /\ frameStartRef = 0
    /\ timerRafRef = FALSE
    /\ durationRef = 0
    /\ mimeTypeRef = ""
    /\ callPc = [k \in Calls |-> "unused"]
    /\ callMic = [k \in Calls |-> FALSE]
    /\ callSys = [k \in Calls |-> FALSE]
    /\ callResult = [k \in Calls |-> "none"]
    /\ ctxState = [k \in Calls |-> "none"]
    /\ micStream = [k \in Calls |-> "none"]
    /\ sysStream = [k \in Calls |-> "none"]
    /\ sysAudioTracks = [k \in Calls |-> 0]
    /\ sysOnended = [k \in Calls |-> FALSE]
    /\ connected = [k \in Calls |-> {}]
    /\ recorder = [k \in Calls |-> "none"]
    /\ recMime = [k \in Calls |-> ""]
    /\ alerts = 0
    /\ now = 0
    /\ platform \in platforms
    /\ delivered = [k \in Calls |-> <<>>]
    /\ recordedMs = 0
    /\ startedDuring = [k \in Calls |-> {}]

Init == InitOn({WebmPlatform})

\* ------------------------------------------------- the timer effect (61-81)

\* The timer treating every live state as running.
TimerRunsWhilePaused(state) == state # Idle

\* recordingState === RecordingState.RECORDING
TimerRuns(state) == state = Recording

\* The effect on [recordingState]: it runs when the committed value changes.
\* dref is durationRef.current at the commit.
TimerEffect(new, dref) ==
    IF new = recordingState
    THEN UNCHANGED <<frameStartRef, timerRafRef>>
    ELSE IF TimerRuns(new)
         THEN /\ frameStartRef' = now - dref * MsPerSec
              /\ timerRafRef' = TRUE
         ELSE /\ timerRafRef' = FALSE
              /\ UNCHANGED frameStartRef

SetRecordingState(new, dref) ==
    /\ recordingState' = new
    /\ TimerEffect(new, dref)

\* ------------------------------------------------- startRecording (83-207)

\* The validation left out.
InvalidRequestUnchecked(mic, sys) == FALSE

\* !enableMic && !enableSystem
InvalidRequest(mic, sys) == ~mic /\ ~sys

\* A failed source rethrown whatever else was requested.
RethrowsAlways(otherRequested) == TRUE

\* if (!enableSystem) throw err / if (!enableMic) throw err: the failure of a
\* source is rethrown when the other source was not requested
Rethrows(otherRequested) == ~otherRequested

\* the catch block of startRecording: alert(...), setRecordingState(IDLE)
Catch(k, dref) ==
    /\ alerts' = alerts + 1
    /\ callResult' = [callResult EXCEPT ![k] = "failed"]
    /\ callPc' = [callPc EXCEPT ![k] = "done"]
    /\ SetRecordingState(Idle, dref)

\* an error thrown before the recorder is created reaches the catch block
Throw(k, dref) ==
    /\ Catch(k, dref)
    /\ UNCHANGED <<mediaRecorderRef, recorder, recMime, mimeTypeRef, audioMimeType>>

\* the function suspends at an await
Await(k, pc) ==
    /\ callPc' = [callPc EXCEPT ![k] = pc]
    /\ UNCHANGED <<callResult, alerts, recordingState, frameStartRef, timerRafRef,
                   mediaRecorderRef, recorder, recMime, mimeTypeRef, audioMimeType>>

\* Lines 157-200: format selection, recorder creation and start.  thr is the
\* platform's choice: the MediaRecorder constructor or start() may throw.
Finish(k, thr, dref) ==
    LET mimeType == getBestAudioMimeType(platform.supported) IN
    /\ mimeTypeRef' = mimeType
    /\ audioMimeType' = mimeType
    /\ IF thr = "ctor"
       THEN /\ recorder' = [recorder EXCEPT ![k] = "refused"]
            /\ UNCHANGED <<mediaRecorderRef, recMime>>
            /\ Catch(k, dref)
       ELSE /\ mediaRecorderRef' = k
            /\ recMime' = [recMime EXCEPT ![k] = RealizedMime(platform, mimeType)]
            /\ IF thr = "start"
               THEN /\ recorder' = [recorder EXCEPT ![k] = "created"]
                    /\ Catch(k, dref)
               ELSE /\ recorder' = [recorder EXCEPT ![k] = "recording"]
                    /\ alerts' = alerts
                    /\ callResult' = [callResult EXCEPT ![k] = "ok"]
                    /\ callPc' = [callPc EXCEPT ![k] = "done"]
                    /\ SetRecordingState(Recording, dref)

\* Lines 84-112, up to the first await.
StartBegin(k, mic, sys, thr) ==
    /\ callPc[k] = "unused"
    /\ \A j \in 1..(k - 1) : callPc[j] # "unused"
    /\ callMic' = [callMic EXCEPT ![k] = mic]
    /\ callSys' = [callSys EXCEPT ![k] = sys]
    /\ startedDuring' = [startedDuring EXCEPT ![k] = {j \in Calls : recorder[j] = "stopping"}]
    /\ UNCHANGED <<micStream, sysStream, sysAudioTracks, sysOnended, connected, now,
                   platform, delivered>>
    /\ IF InvalidRequest(mic, sys)
       THEN /\ Throw(k, durationRef)
            /\ thr = "none"
            /\ UNCHANGED <<audioBlob, duration, analyser, audioContextRef, streamsRef,
                           chunksRef, durationRef, ctxState, recordedMs>>
       ELSE /\ audioBlob' = NoBlob
            /\ chunksRef' = <<>>
            /\ duration' = 0
            /\ durationRef' = 0
            /\ recordedMs' = 0
            /\ streamsRef' = <<>>
            /\ ctxState' = [ctxState EXCEPT ![k] = "running"]
            /\ audioContextRef' = k
            /\ analyser' = k
            /\ IF mic THEN Await(k, "awaitMic") /\ thr = "none"
               ELSE IF sys THEN Await(k, "awaitSys") /\ thr = "none"
               ELSE Finish(k, thr, 0)

\* Lines 116-125: getUserMedia settles; then either the next await or, for a
\* microphone-only request, the rest of the function.
MicResolve(k, outcome, thr) ==
    /\ callPc[k] = "awaitMic"
    /\ streamsRef' = IF outcome # "fail" THEN Append(streamsRef, MicOf(k)) ELSE streamsRef
    /\ micStream' = [micStream EXCEPT ![k] = IF outcome # "fail" THEN "live" ELSE "failed"]
    /\ connected' = [connected EXCEPT ![k] = IF outcome = "ok" THEN @ \cup {"mic"} ELSE @]
    /\ UNCHANGED <<audioBlob, duration, analyser, audioContextRef, chunksRef, durationRef,
                   callMic, callSys, ctxState, sysStream, sysAudioTracks, sysOnended,
                   now, platform, histVars>>
    /\ IF outcome # "ok" /\ Rethrows(callSys[k])
       THEN Throw(k, durationRef) /\ thr = "none"
       ELSE IF callSys[k]
            THEN Await(k, "awaitSys") /\ thr = "none"
            ELSE Finish(k, thr, durationRef)

\* A display stream without audio tracks left as it was acquired.
StreamWithoutAudioKept == "live"

\* displayStream.getTracks().forEach(t => t.stop()) of line 149: what becomes
\* of a display stream that has no audio track
StreamWithoutAudio == "stopped"

\* Lines 129-200: getDisplayMedia settles, then the rest of the function.
SysResolve(k, outcome, thr) ==
    /\ callPc[k] = "awaitSys"
    /\ streamsRef' = IF outcome # "fail" THEN Append(streamsRef, SysOf(k)) ELSE streamsRef
    /\ sysStream' = [sysStream EXCEPT ![k] =
                        CASE outcome = "fail" -> "failed"
                          [] outcome = "noAudio" -> StreamWithoutAudio
                          [] OTHER -> "live"]
    /\ sysAudioTracks' = [sysAudioTracks EXCEPT ![k] =
                             IF outcome \in {"audio", "wire"} THEN 1 ELSE 0]
    /\ connected' = [connected EXCEPT ![k] = IF outcome = "audio" THEN @ \cup {"sys"} ELSE @]
    /\ sysOnended' = [sysOnended EXCEPT ![k] = (outcome = "audio")]
    /\ UNCHANGED <<audioBlob, duration, analyser, audioContextRef, chunksRef, durationRef,
                   callMic, callSys, ctxState, micStream, now, platform, histVars>>
    /\ IF outcome \in {"fail", "wire"} /\ Rethrows(callMic[k])
       THEN Throw(k, durationRef) /\ thr = "none"
       ELSE Finish(k, thr, durationRef)

\* ------------------------------------- stop, pause, resume (209-227)

\* mediaRecorderRef.current.stop(): the recorder turns inactive at once and
\* its dataavailable and stop events are queued
StopRecorder ==
    /\ recorder' = [recorder EXCEPT ![mediaRecorderRef] = "stopping"]
    /\ UNCHANGED <<hookVars, refVars, callVars, ctxState, micStream, sysStream,
                   sysAudioTracks, sysOnended, connected, recMime, envVars, histVars>>

stopRecording ==
    IF RefActive THEN StopRecorder ELSE UNCHANGED vars

pauseRecording ==
    IF mediaRecorderRef # NoRef /\ RecorderState(recorder[mediaRecorderRef]) = "recording"
    THEN /\ recorder' = [recorder EXCEPT ![mediaRecorderRef] = "paused"]
         /\ SetRecordingState(Paused, durationRef)
         /\ UNCHANGED <<audioBlob, audioMimeType, duration, analyser, mediaRecorderRef,
                        audioContextRef, streamsRef, chunksRef, durationRef, mimeTypeRef,
                        callVars, ctxState, micStream, sysStream, sysAudioTracks,
                        sysOnended, connected, recMime, envVars, histVars>>
    ELSE UNCHANGED vars

resumeRecording ==
    IF mediaRecorderRef # NoRef /\ RecorderState(recorder[mediaRecorderRef]) = "paused"
    THEN /\ recorder' = [recorder EXCEPT ![mediaRecorderRef] = "recording"]
         /\ SetRecordingState(Recording, durationRef)
         /\ UNCHANGED <<audioBlob, audioMimeType, duration, analyser, mediaRecorderRef,
                        audioContextRef, streamsRef, chunksRef, durationRef, mimeTypeRef,
                        callVars, ctxState, micStream, sysStream, sysAudioTracks,
                        sysOnended, connected, recMime, envVars, histVars>>
    ELSE UNCHANGED vars

\* ------------------------------------------------------ recorder events

\* The payload of the next chunk recorder k delivers
NextChunk(k) == <<k, Len(delivered[k]) + 1>>

\* if (e.data.size > 0) chunksRef.current.push(e.data)
PushChunk(chunks, chunk, size) == IF size > 0 THEN Append(chunks, chunk) ELSE chunks

\* recorder.ondataavailable (175-177) for a timeslice chunk of recorder k
DataAvailable(k, size) ==
    /\ recorder[k] = "recording"
    /\ Len(delivered[k]) < MaxChunks
    /\ chunksRef' = PushChunk(chunksRef, NextChunk(k), size)
    /\ delivered' = [delivered EXCEPT ![k] = IF size > 0 THEN Append(@, NextChunk(k)) ELSE @]
    /\ UNCHANGED <<hookVars, mediaRecorderRef, audioContextRef, streamsRef, frameStartRef,
                   timerRafRef, durationRef, mimeTypeRef, callVars, objVars, envVars,
                   recordedMs, startedDuring>>

\* The blob typed by the requested format before the recorder's own.
FinalMimeTypeRequestedFirst(realized, requested) == OrElse(requested, realized, FallbackMime)

\* recorder.mimeType || mimeTypeRef.current || 'audio/webm'
FinalMimeType(realized, requested) == OrElse(realized, requested, FallbackMime)

\* The task a stop() queued: the last dataavailable event, then recorder.onstop
\* (179-197) of recorder k.
RecorderStopEvent(k, size) ==
    LET last == NextChunk(k)
        chunks == PushChunk(chunksRef, last, size)
        finalMimeType == FinalMimeType(recMime[k], mimeTypeRef)
    IN
    /\ recorder[k] = "stopping"
    /\ chunksRef' = chunks
    /\ delivered' = [delivered EXCEPT ![k] = IF size > 0 THEN Append(@, last) ELSE @]
    /\ audioBlob' = [chunks |-> chunks, type |-> finalMimeType, by |-> k]
    /\ audioMimeType' = finalMimeType
    /\ micStream' = StopAll(micStream, "mic", streamsRef)
    /\ sysStream' = StopAll(sysStream, "sys", streamsRef)
    /\ streamsRef' = <<>>
    /\ ctxState' = IF audioContextRef # NoRef /\ ctxState[audioContextRef] # "closed"
                   THEN [ctxState EXCEPT ![audioContextRef] = "closed"]
                   ELSE ctxState
    /\ analyser' = NoRef
    /\ SetRecordingState(Idle, durationRef)
    /\ recorder' = [recorder EXCEPT ![k] = "finalized"]
    /\ UNCHANGED <<duration, mediaRecorderRef, audioContextRef, durationRef, mimeTypeRef,
                   callVars, sysAudioTracks, sysOnended, connected, recMime, envVars,
                   recordedMs, startedDuring>>

\* The display stream's video track ends outside the application; where the
\* handler of lines 141-145 was registered it runs.
DisplayTrackEnded(k) ==
    /\ sysStream[k] = "live"
    /\ sysStream' = [sysStream EXCEPT ![k] = "ended"]
    /\ recorder' = IF sysOnended[k] /\ RefActive
                   THEN [recorder EXCEPT ![mediaRecorderRef] = "stopping"]
                   ELSE recorder
    /\ UNCHANGED <<hookVars, refVars, callVars, ctxState, micStream, sysAudioTracks,
                   sysOnended, connected, recMime, envVars, histVars>>

\* ------------------------------------------------------------- the clock

\* The task a stop() queued runs before the clock's next step.
NoQueuedStop == \A k \in Calls : recorder[k] # "stopping"

\* An animation frame while the timer is scheduled: tick() of lines 64-68,
\* with the effect of lines 55-57 on the new duration.
Tick ==
    /\ timerRafRef
    /\ NoQueuedStop
    /\ now < MaxSteps * StepMs
    /\ now' = now + StepMs
    /\ duration' = (now' - frameStartRef) \div MsPerSec
    /\ durationRef' = duration'
    /\ recordedMs' = IF recordingState = Recording THEN recordedMs + StepMs ELSE recordedMs
    /\ UNCHANGED <<recordingState, audioBlob, audioMimeType, analyser, mediaRecorderRef,
                   audioContextRef, streamsRef, chunksRef, frameStartRef, timerRafRef,
                   mimeTypeRef, callVars, objVars, alerts, platform, delivered,
                   startedDuring>>

\* Time passes while no animation frame is scheduled.
TimePasses ==
    /\ ~timerRafRef
    /\ NoQueuedStop
    /\ now < MaxSteps * StepMs
    /\ now' = now + StepMs
    /\ UNCHANGED <<hookVars, refVars, callVars, objVars, alerts, platform, histVars>>

\* ------------------------------------------------------------------- Next

\* The hook's operations and the events of the objects it created, for the
\* given platform outcomes and sizes of a stopped recorder's last chunk.
Operations(mics, syss, thrs, sizes) ==
    \/ \E k \in Calls, mic \in BOOLEAN, sys \in BOOLEAN, thr \in thrs :
          StartBegin(k, mic, sys, thr)
    \/ \E k \in Calls, o \in mics, thr \in thrs : MicResolve(k, o, thr)
    \/ \E k \in Calls, o \in syss, thr \in thrs : SysResolve(k, o, thr)
    \/ stopRecording
    \/ pauseRecording
    \/ resumeRecording
    \/ \E k \in Calls, size \in sizes : RecorderStopEvent(k, size)
    \/ \E k \in Calls : DisplayTrackEnded(k)

\* Operations and chunk delivery, the clock standing still.
Next ==
    \/ Operations(MicOutcomes, SysOutcomes, RecorderThrows, ChunkSizes)
    \/ \E k \in Calls, size \in ChunkSizes : DataAvailable(k, size)

Spec == Init /\ [][Next]_vars

\* Operations and the clock: every chunk is empty, and a failing platform call
\* is a rejected acquisition or a recorder that does not start.
TimerNext ==
    \/ Operations({"ok", "fail"}, {"audio", "noAudio", "fail"}, {"none", "start"}, {0})
    \/ Tick
    \/ TimePasses

TimerSpec == Init /\ [][TimerNext]_vars

\* Operations and chunk delivery on every platform, the clock standing still:
\* a failing platform call is a rejected acquisition, and the recorder starts.
FormatNext ==
    \/ Operations({"ok", "fail"}, {"audio", "fail"}, {"none"}, ChunkSizes)
    \/ \E k \in Calls, size \in ChunkSizes : DataAvailable(k, size)

FormatSpec == InitOn(Platforms) /\ [][FormatNext]_vars

\* The operations alone, with the outcomes of TimerNext.  A stop() queues the
\* recorder's stop event as a task, and the event loop runs every queued task:
\* the stop event of each recorder is weakly fair.
LiveNext ==
    Operations({"ok", "fail"}, {"audio", "noAudio", "fail"}, {"none", "start"}, {0})

LiveSpec ==
    /\ Init
    /\ [][LiveNext]_vars
    /\ \A k \in Calls : WF_vars(RecorderStopEvent(k, 0))

\* The operations on a platform of every set of supported types, where every
\* platform call succeeds.
NegotiationNext == Operations({"ok"}, {"audio"}, {"none"}, {0})

NegotiationSpec == InitOn(EveryPlatform) /\ [][NegotiationNext]_vars

\* ================================================================ claims

\* What a step did, read from the objects and invocations it changed.
StartedBy(k) == callPc[k] = "unused" /\ callPc'[k] # "unused"
StartSucceeded == \E k \in Calls : callResult[k] # "ok" /\ callResult'[k] = "ok"
StartFailed(k) == callResult[k] # "failed" /\ callResult'[k] = "failed"
PauseStep == \E k \in Calls : recorder[k] = "recording" /\ recorder'[k] = "paused"
ResumeStep == \E k \in Calls : recorder[k] = "paused" /\ recorder'[k] = "recording"
Finalized(k) == recorder[k] = "stopping" /\ recorder'[k] = "finalized"
StopCallStep ==
    /\ \E k \in Calls : RecorderState(recorder[k]) # "inactive" /\ recorder'[k] = "stopping"
    /\ sysStream' = sysStream

Live(k) == micStream[k] = "live" \/ sysStream[k] = "live"
Acquired(k) ==
    \/ micStream[k] \in {"live", "stopped"}
    \/ sysStream[k] \in {"live", "stopped", "ended"}
OnlyOneCall == \A k \in Calls : k > 1 => callPc[k] = "unused"

\* C1: recordingState changes only along Idle -> Recording (a start that
\* succeeds), Recording -> Paused (pause), Paused -> Recording (resume) and
\* Recording or Paused -> Idle (the finalization of a stopped recorder).
C1_ListedTransitions ==
    [][recordingState' # recordingState =>
         \/ recordingState = Idle /\ recordingState' = Recording /\ StartSucceeded
         \/ recordingState = Recording /\ recordingState' = Paused /\ PauseStep
         \/ recordingState = Paused /\ recordingState' = Recording /\ ResumeStep
         \/ /\ recordingState \in {Recording, Paused}
            /\ recordingState' = Idle
            /\ \E k \in Calls : Finalized(k)]_vars

\* C2: while recordingState is Recording or Paused the session's source list
\* holds an acquired source (stated for a session no second startRecording call
\* has touched), and a call that reached Recording acquired a source: a call
\* whose every requested source failed does not reach Recording.
C2_SourceHeld ==
    /\ OnlyOneCall /\ recordingState \in {Recording, Paused} => streamsRef # <<>>
    /\ \A k \in Calls : callResult[k] = "ok" => Acquired(k)

\* C3: once the recorder of a session has been finalized, no stream acquired by
\* that session's startRecording call has a live track.
C3_SessionReleased ==
    \A k \in Calls : recorder[k] = "finalized" => ~Live(k)

\* C4: a startRecording call that fails ends in Idle and leaves none of the
\* streams it acquired live.
C4_FailedStartReleases ==
    [][\A k \in Calls : StartFailed(k) => recordingState' = Idle /\ ~Live(k)']_vars

\* C5: the blob a recorder's finalization produces holds exactly the non-empty
\* chunks that recorder delivered, in delivery order.
C5_BlobIsDelivered ==
    audioBlob # NoBlob => audioBlob.chunks = delivered[audioBlob.by]

\* C6: stopRecording called while recordingState is Idle changes nothing; after
\* a stopRecording call a second one changes nothing; a recorder is finalized
\* once.
C6_StopIdempotent ==
    [][/\ recordingState = Idle => ~StopCallStep
       /\ StopCallStep => ~RefActive'
       /\ \A k \in Calls : recorder[k] = "finalized" => recorder'[k] = "finalized"]_vars

\* C7: for one session, stopped after any pause/resume cycles, the duration
\* reported is the whole seconds of the time spent recording.
C7_ElapsedIsSum ==
    OnlyOneCall /\ recorder[1] = "finalized" => duration = recordedMs \div MsPerSec

\* C8: duration does not decrease from one Recording state to the next, nor
\* from the value shown while Paused to the value shown after the resume.
C8_DurationMonotone ==
    [][(recordingState \in {Recording, Paused} /\ recordingState' = Recording)
          => (duration' >= duration)]_vars

\* C9: duration changes only by a tick taken while Recording or by the reset to
\* 0 of a new startRecording call; while Paused no tick changes it.
C9_DurationFrame ==
    [][/\ duration' # duration =>
             \/ recordingState = Recording /\ recordingState' = Recording /\ now' # now
             \/ duration' = 0 /\ \E k \in Calls : StartedBy(k)
       /\ recordingState = Paused /\ now' # now => duration' = duration]_vars

\* C9 witness: time has passed while Paused and duration still shows the value
\* it had at the pause.
C9_FrozenWhilePaused ==
    /\ recordingState = Paused
    /\ now - frameStartRef >= MsPerSec
    /\ duration = 0

\* C10: startRecording(false, false) fails with one notice and leaves
\* recordingState Idle; it requests no stream and creates no context, analyser
\* or recorder, then or later.
C10_InvalidRequestRejected ==
    [][\A k \in Calls :
          /\ StartedBy(k) /\ ~callMic'[k] /\ ~callSys'[k] =>
                /\ callResult'[k] = "failed"
                /\ callPc'[k] = "done"
                /\ alerts' = alerts + 1
                /\ recordingState' = Idle
                /\ UNCHANGED <<ctxState, micStream, sysStream, recorder, connected,
                               streamsRef, chunksRef, analyser, audioContextRef,
                               mediaRecorderRef, audioBlob, duration>>
          /\ callPc'[k] # "unused" /\ ~callMic'[k] /\ ~callSys'[k] =>
                /\ ctxState'[k] = "none"
                /\ micStream'[k] = "none"
                /\ sysStream'[k] = "none"
                /\ recorder'[k] = "none"]_vars

\* C10 witness: startRecording(false, false) was called during a live session.
C10_RejectedWhileLive ==
    \E k \in Calls :
        /\ callPc[k] = "done" /\ ~callMic[k] /\ ~callSys[k]
        /\ callResult[k] = "failed"
        /\ recordingState = Idle
        /\ \E j \in Calls : recorder[j] = "recording"

\* A requested source of invocation k: connected to the mixer (up), or settled
\* without a connection because its try block threw (down).
MicUp(k) == "mic" \in connected[k]
SysUp(k) == "sys" \in connected[k]
MicDown(k) == micStream[k] # "none" /\ ~MicUp(k)
SysDown(k) == sysStream[k] = "failed" \/ (sysStream[k] = "live" /\ ~SysUp(k))
PartialFailure(k) ==
    /\ callMic[k] /\ callSys[k]
    /\ (MicUp(k) /\ SysDown(k)) \/ (MicDown(k) /\ SysUp(k))
CallCompletes(k) == callPc[k] # "done" /\ callPc'[k] = "done"
RecorderFailed(k) == recorder[k] \in {"refused", "created"}

\* C11: a startRecording(true, true) call of which one source failed and the
\* other was acquired with an audio track and connected completes, unless the
\* recorder itself throws, in Recording with exactly one source connected to
\* the mixer and without a failure notice.
C11_PartialFailureTolerated ==
    [][\A k \in Calls :
          (CallCompletes(k) /\ PartialFailure(k)' /\ ~RecorderFailed(k)') =>
              /\ callResult'[k] = "ok"
              /\ recordingState' = Recording
              /\ Cardinality(connected'[k]) = 1
              /\ alerts' = alerts]_vars

\* C11 witness: the microphone was refused, system audio was shared, and the
\* call reached Recording with the system source alone and no notice.
C11_SystemAloneRecords ==
    \E k \in Calls :
        /\ callMic[k] /\ callSys[k] /\ callResult[k] = "ok"
        /\ micStream[k] = "failed" /\ connected[k] = {"sys"}
        /\ recordingState = Recording /\ alerts = 0

TrackEnds(k) == sysStream[k] = "live" /\ sysStream'[k] = "ended"

\* C12: when the video track of a session's connected display stream ends
\* while recordingState is Recording or Paused, the recorder is stopped as
\* stopRecording would stop it, and the finalization that follows reaches Idle
\* with a blob of the chunks that recorder delivered, no stream of the session
\* live and the analyser cleared.
C12_ExternalStopFinalizes ==
    [][\A k \in Calls :
          /\ (TrackEnds(k) /\ SysUp(k) /\ recordingState \in {Recording, Paused}) =>
                /\ recorder' = IF RefActive
                               THEN [recorder EXCEPT ![mediaRecorderRef] = "stopping"]
                               ELSE recorder
                /\ recorder'[k] = "stopping"
          /\ (Finalized(k) /\ sysStream[k] = "ended") =>
                /\ recordingState' = Idle
                /\ audioBlob' # NoBlob
                /\ audioBlob'.chunks = delivered'[k]
                /\ ~Live(k)'
                /\ analyser' = NoRef]_vars

Capturing(k) == recorder[k] \in {"recording", "paused"}
InProgress(k) == callPc[k] \in {"awaitMic", "awaitSys"}

\* C13: at most one recorder is recording or paused, and at most one
\* invocation's graph holds live streams.
C13_OneLiveSession ==
    /\ Cardinality({k \in Calls : Capturing(k)}) <= 1
    /\ Cardinality({k \in Calls : Live(k)}) <= 1

\* C14: a startRecording call made while recordingState is Recording or Paused
\* fails and changes nothing of the live session: chunks, sources, recorder,
\* duration and recordingState stay as they are and no context is created.
C14_StartWhileLiveRejected ==
    [][\A k \in Calls :
          (StartedBy(k) /\ recordingState \in {Recording, Paused}) =>
              /\ callResult'[k] = "failed"
              /\ UNCHANGED <<chunksRef, streamsRef, micStream, sysStream, recorder,
                             mediaRecorderRef, duration, recordingState, ctxState,
                             audioContextRef, analyser>>]_vars

\* C15: while a startRecording call is between its resets and its completion
\* no chunk is appended to the chunk list.
C15_NoChunkDuringStart ==
    [][(\E k \in Calls : InProgress(k)) => Len(chunksRef') <= Len(chunksRef)]_vars

\* C16: audioBlob is null in every state with recordingState Recording or
\* Paused, and a new non-null blob appears only in the step that finalizes a
\* stopped recorder.
C16_NoBlobWhileLive ==
    [][/\ recordingState' \in {Recording, Paused} => audioBlob' = NoBlob
       /\ (audioBlob' # NoBlob /\ audioBlob' # audioBlob) => \E k \in Calls : Finalized(k)]_vars

\* What a blob holds: its chunks and its declared type
BlobContent(b) == <<b.chunks, b.type>>

\* C17: the content of a blob, once produced, changes only by a startRecording
\* call.
C17_BlobKept ==
    [][(audioBlob # NoBlob /\ BlobContent(audioBlob') # BlobContent(audioBlob)) =>
           \E k \in Calls : StartedBy(k)]_vars

\* C20: whenever recordingState is Idle and no startRecording call is in
\* progress the analyser is null.
C20_AnalyserOnlyWhileLive ==
    (recordingState = Idle /\ \A k \in Calls : ~InProgress(k)) => analyser = NoRef

\* C18: in the step that finalizes a recorder whose mimeType is not empty, the
\* blob's type and audioMimeType both become that mimeType, whatever format was
\* requested; they are the requested format only if it is the recorder's or
\* the recorder reports none.
C18_RealizedTypeWins ==
    [][\A k \in Calls : Finalized(k) =>
          /\ recMime[k] # "" => audioBlob'.type = recMime[k] /\ audioMimeType' = recMime[k]
          /\ audioMimeType' = audioBlob'.type
          /\ audioBlob'.type = mimeTypeRef => recMime[k] \in {"", mimeTypeRef}]_vars

\* C18 witness: a recorder was finalized on a platform that had substituted its
\* own format for the requested one, and the blob carries the platform's.
C18_SubstitutedTypeExposed ==
    /\ audioBlob # NoBlob
    /\ recorder[audioBlob.by] = "finalized"
    /\ mimeTypeRef # "" /\ recMime[audioBlob.by] \notin {"", mimeTypeRef}
    /\ audioBlob.type = recMime[audioBlob.by]
    /\ audioMimeType = recMime[audioBlob.by]

\* C19: on a platform that supports none of the preferred types, once a
\* startRecording call has succeeded audioMimeType is the platform default the
\* recorder realized, never "" and never a preferred type.
C19_DefaultTypeExposed ==
    (getBestAudioMimeType(platform.supported) = "" /\ \E k \in Calls : callResult[k] = "ok")
        => audioMimeType = platform.default

\* C21: pauseRecording takes effect only while recordingState is Recording
\* and resumeRecording only while it is Paused; called in any other state they
\* change nothing.
C21_PauseResumeOnlyWhereTheyApply ==
    [][/\ PauseStep => recordingState = Recording
       /\ ResumeStep => recordingState = Paused]_vars

\* Every source the invocation requested has failed: a start that cannot
\* record anything.
AllSourcesFailed(k) ==
    /\ callMic[k] \/ callSys[k]
    /\ callMic[k] => MicDown(k)
    /\ callSys[k] => SysDown(k)

\* C22: a startRecording call that fails (invalid request, every requested
\* source failed, or the recorder refused) raises exactly one notice, and a
\* call that reaches Recording with a source connected raises none; a notice
\* is raised by nothing else.
C22_OneNoticePerFailure ==
    [][/\ \A k \in Calls : CallCompletes(k) =>
             /\ (callResult'[k] = "failed" \/ AllSourcesFailed(k)') => alerts' = alerts + 1
             /\ (callResult'[k] = "ok" /\ connected'[k] # {}) => alerts' = alerts
       /\ alerts' # alerts => \E k \in Calls : CallCompletes(k)]_vars

\* C23: a startRecording call none of whose requested sources was connected
\* to the mixer does not reach Recording.
C23_NoSilentRecording ==
    \A k \in Calls : callResult[k] = "ok" => connected[k] # {}

\* C28: whenever recordingState is Idle and no startRecording call is in
\* progress, no AudioContext a call created is still open.
C28_NoContextLeftOpen ==
    (recordingState = Idle /\ \A k \in Calls : ~InProgress(k)) =>
        \A k \in Calls : ctxState[k] # "running"

\* C29: recordingState is not Idle while the recorder mediaRecorderRef holds
\* is recording or paused.
C29_IdleMeansNotCapturing ==
    recordingState = Idle => ~(mediaRecorderRef # NoRef /\ Capturing(mediaRecorderRef))

\* C30: every acquired stream that still has a live track is in streamsRef.
C30_LiveStreamsListed ==
    \A k \in Calls :
        /\ micStream[k] = "live" => InList(MicOf(k), streamsRef)
        /\ sysStream[k] = "live" => InList(SysOf(k), streamsRef)

\* A startRecording call has run getBestAudioMimeType and stored its result in
\* mimeTypeRef.
Negotiated == \E k \in Calls : recorder[k] # "none"
SupportedRanks == {i \in 1..Len(preferredTypes) : preferredTypes[i] \in platform.supported}

C24_StopReachesIdle ==
    \A k \in Calls :
        (recorder[k] = "stopping" /\ recordingState \in {Recording, Paused})
            ~> (/\ recorder[k] = "finalized"
                /\ recordingState = Idle
                /\ audioBlob # NoBlob
                /\ ~Live(k)
                /\ analyser = NoRef)

\* C25: when a recorder is finalized after a later startRecording call began
\* while its stop event was queued, the finalization releases the streams of
\* its own session and builds the blob from its own chunks, and it leaves the
\* later call's streams, context and analyser alone and does not set Idle over
\* the later call's running recorder.
C25_FinalizationKeepsToItsSession ==
    [][\A k \in Calls, j \in Calls :
          (Finalized(k) /\ k \in startedDuring[j]) =>
              /\ ~Live(k)'
              /\ audioBlob'.chunks = delivered'[k]
              /\ micStream'[j] = micStream[j]
              /\ sysStream'[j] = sysStream[j]
              /\ ctxState'[j] = ctxState[j]
              /\ analyser = j => analyser' = j
              /\ Capturing(j) => recordingState' # Idle]_vars

\* The display stream of invocation k arrives in this step.
DisplayStreamArrives(k) == sysStream[k] = "none" /\ sysStream'[k] \notin {"none", "failed"}

\* C26: a display stream that arrives without an audio track has its tracks
\* stopped in the step that receives it (the recorder of that call does not
\* exist before), is not connected to the mixer and gets no onended handler;
\* unless the recorder itself throws, the call goes on to Recording with no
\* notice.
C26_ShareWithoutAudioReleased ==
    [][\A k \in Calls :
          (DisplayStreamArrives(k) /\ sysAudioTracks'[k] = 0) =>
              /\ sysStream'[k] = "stopped"
              /\ recorder[k] = "none"
              /\ ~SysUp(k)' /\ ~sysOnended'[k]
              /\ ~RecorderFailed(k)' =>
                    callResult'[k] = "ok" /\ recorder'[k] = "recording" /\ alerts' = alerts]_vars

\* C26 witness: a share without audio was accepted next to a working
\* microphone: the display stream is stopped while the session records.
C26_VideoOnlyShareStopped ==
    \E k \in Calls :
        /\ callMic[k] /\ callSys[k] /\ callResult[k] = "ok"
        /\ sysStream[k] = "stopped" /\ sysAudioTracks[k] = 0
        /\ recorder[k] = "recording" /\ connected[k] = {"mic"}
        /\ alerts = 0

====
